---- MODULE Spec2Model ----
(***************************************************************************)
(* The contract-call hook layer of kitties-app (src/unnamed/part_001):     *)
(*   - convertDnaToGenes / useDnaToGenes   (DNA -> genes encoder)          *)
(*   - useContractNotification             (status -> toast adapter)       *)
(*   - the six action hooks' on<Action> guards                             *)
(*   - useChainId, useContract and the read hooks                          *)
(* Each part has its own specification over the shared variable list.      *)
(***************************************************************************)
EXTENDS Integers, Sequences, FiniteSets, TLC

VARIABLES
    dna,        \* the DNA record handed to useDnaToGenes: its values in declared order
    genes,      \* the memoised result of convertDnaToGenes, NoGenes before the render
    txStatus,   \* state.status of the useContractFunction tracker
    deps,       \* the dependency array useContractNotification's effect last ran with
    toastRef,   \* toastRef.current
    toasts,     \* the toast store of react-hot-toast: toast id -> toast
    lastCalls,  \* the calls (resetState, toast.*) made by the latest render's effect
    lastAction, \* the latest on<Action> invocation: hook, arguments, sends, return value
    ethers,     \* what useEthers() returns: chainId, library, account
    lastRead    \* the latest read-hook render: contract handle, calls issued, value

genesVars   == <<dna, genes>>
notifyVars  == <<txStatus, deps, toastRef, toasts, lastCalls>>
guardVars   == <<lastAction>>
resolveVars == <<ethers, lastRead>>
vars == <<dna, genes, txStatus, deps, toastRef, toasts, lastCalls, lastAction,
          ethers, lastRead>>

(***************************************************************************)
(* Bounds                                                                  *)
(***************************************************************************)
NumFields == 3
MaxTrait == 23
PairFields == 2
MaxPairTrait == 12

(***************************************************************************)
(* Domain encoder: convertDnaToGenes                                       *)
(***************************************************************************)
NoGenes == -1

\* A DNA record, as Object.values(dna) sees it: the field values in declared order.
DNA == [1..NumFields -> 0..MaxTrait]
PairDNA == [1..PairFields -> 0..MaxPairTrait]

\* `genes += dnaValue` with a number on the right: the value's decimal string,
\* as a sequence of digits.
RECURSIVE ToDecimalString(_)
ToDecimalString(n) ==
    IF n < 10 THEN <<n>> ELSE ToDecimalString(n \div 10) \o <<n % 10>>

\* BigNumber.from(string) on a string of decimal digits.
RECURSIVE BigNumberFrom(_)
BigNumberFrom(str) ==
    IF Len(str) = 0 THEN 0
    ELSE BigNumberFrom(SubSeq(str, 1, Len(str) - 1)) * 10 + str[Len(str)]

\* The forEach loop: genes after the first i values were appended to "".
RECURSIVE AppendValues(_, _)
AppendValues(d, i) ==
    IF i = 0 THEN <<>> ELSE AppendValues(d, i - 1) \o ToDecimalString(d[i])

\* Mutant: the loop assigns (genes = dnaValue) instead of appending.
convertDnaToGenesAssign(d) == BigNumberFrom(ToDecimalString(d[Len(d)]))

\* Mutant: the values are appended in reverse order.
RECURSIVE AppendValuesReversed(_, _)
AppendValuesReversed(d, i) ==
    IF i > Len(d) THEN <<>>
    ELSE AppendValuesReversed(d, i + 1) \o ToDecimalString(d[i])
convertDnaToGenesReversed(d) == BigNumberFrom(AppendValuesReversed(d, 1))

convertDnaToGenes(d) == BigNumberFrom(AppendValues(d, Len(d)))

\* useDnaToGenes: useMemo(() => convertDnaToGenes(dna), [dna]).
UseDnaToGenes ==
    /\ genes = NoGenes
    /\ genes' = convertDnaToGenes(dna)
    /\ UNCHANGED <<dna, notifyVars, guardVars, resolveVars>>

(***************************************************************************)
(* Call/notification adapter: useContractNotification                      *)
(***************************************************************************)
Statuses == {"None", "PendingSignature", "Mining", "Success", "Fail", "Exception"}

\* The message props of one hook instance; "" is a message that is not configured.
ErrorMessages   == {"", "Error - create Gen0 Kitty"}
MiningMessages  == {"", "Loading - genes 1123", "Loading - genes 2123"}
SuccessMessages == {"", "Success - create Gen0 Kitty"}

ToastDuration == 6000

\* genId() of the toast library: a fresh identity, never one already in the store.
IdNames == <<"1", "2", "3", "4", "5", "6", "7", "8">>
GenId(store) == IdNames[Cardinality({t.id : t \in store}) + 1]

ResetCall == [op |-> "resetState"]
ToastCall(type, message, opts) ==
    [op |-> "toast", type |-> type, message |-> message, opts |-> opts]

\* Mutant: the error branch shows a success toast.
CaseFailAsSuccess(errorMessage, ref) ==
    <<ResetCall>> \o
    (IF errorMessage = "" THEN <<>>
     ELSE <<ToastCall("success", errorMessage,
                      [id |-> ref, duration |-> ToastDuration])>>)

\* Mutant: the error branch does not reset the action's state.
CaseFailNoReset(errorMessage, ref) ==
    IF errorMessage = "" THEN <<>>
    ELSE <<ToastCall("error", errorMessage,
                     [id |-> ref, duration |-> ToastDuration])>>

\* case "Exception": case "Fail":
CaseFail(errorMessage, ref) ==
    <<ResetCall>> \o
    (IF errorMessage = "" THEN <<>>
     ELSE <<ToastCall("error", errorMessage,
                      [id |-> ref, duration |-> ToastDuration])>>)

\* Mutant: the loading toast is shown under a fresh identity (the handle is not
\* passed).
CaseMiningFreshId(miningMessage, ref) ==
    IF miningMessage = "" THEN <<>>
    ELSE <<ToastCall("loading", miningMessage, [id |-> ""])>>

\* case "Mining":
CaseMining(miningMessage, ref) ==
    IF miningMessage = "" THEN <<>>
    ELSE <<ToastCall("loading", miningMessage, [id |-> ref])>>

\* case "Success":
CaseSuccess(successMessage, ref) ==
    <<ResetCall>> \o
    (IF successMessage = "" THEN <<>>
     ELSE <<ToastCall("success", successMessage,
                      [id |-> ref, duration |-> ToastDuration])>>)

\* The effect's switch: the calls it makes, in order.
Effect(status, errorMessage, miningMessage, successMessage, ref) ==
    CASE status \in {"Exception", "Fail"} -> CaseFail(errorMessage, ref)
      [] status = "Mining"                -> CaseMining(miningMessage, ref)
      [] status = "Success"               -> CaseSuccess(successMessage, ref)
      [] OTHER                            -> <<>>

ToastCalls(calls) == SelectSeq(calls, LAMBDA c : c.op = "toast")
ResetCalls(calls) == SelectSeq(calls, LAMBDA c : c.op = "resetState")

\* toast.error / toast.loading / toast.success: the identity the call returns
\* (opts.id, or a fresh one when opts.id is falsy) ...
ToastReturn(call, store) ==
    IF call.opts.id # "" THEN call.opts.id ELSE GenId(store)
\* ... and the store after it: the toast of that identity is replaced.
ToastUpsert(call, store) ==
    LET id == ToastReturn(call, store)
    IN  {t \in store : t.id # id} \cup
        {[id |-> id, type |-> call.type, message |-> call.message,
          persistent |-> ("duration" \notin DOMAIN call.opts)]}

\* One render of the hook with the given message props and the tracker's current
\* status; the effect runs when a dependency differs from the last run's.
\* resetState is the tracker's stable callback and never differs.
Render(errorMessage, miningMessage, successMessage) ==
    LET newDeps == [errorMessage |-> errorMessage, miningMessage |-> miningMessage,
                    status |-> txStatus, successMessage |-> successMessage]
        calls == IF newDeps # deps
                 THEN Effect(txStatus, errorMessage, miningMessage, successMessage,
                             toastRef)
                 ELSE <<>>
        shown == ToastCalls(calls)
    IN  /\ deps' = newDeps
        /\ lastCalls' = calls
        /\ txStatus' = IF Len(ResetCalls(calls)) > 0 THEN "None" ELSE txStatus
        /\ toastRef' = IF Len(shown) > 0 THEN ToastReturn(shown[1], toasts)
                       ELSE toastRef
        /\ toasts' = IF Len(shown) > 0 THEN ToastUpsert(shown[1], toasts) ELSE toasts
        /\ UNCHANGED <<genesVars, guardVars, resolveVars>>

\* The tracker's transitions. Each is separated from the next by a wallet or
\* network round trip, so the hook has rendered the current status before the
\* tracker moves on.
Rendered == deps.status = txStatus

Send ==
    /\ Rendered /\ txStatus # "PendingSignature"
    /\ txStatus' = "PendingSignature"
    /\ UNCHANGED <<deps, toastRef, toasts, lastCalls, genesVars, guardVars, resolveVars>>

TxMined ==
    /\ Rendered /\ txStatus = "PendingSignature"
    /\ txStatus' = "Mining"
    /\ UNCHANGED <<deps, toastRef, toasts, lastCalls, genesVars, guardVars, resolveVars>>

TxException ==
    /\ Rendered /\ txStatus = "PendingSignature"
    /\ txStatus' = "Exception"
    /\ UNCHANGED <<deps, toastRef, toasts, lastCalls, genesVars, guardVars, resolveVars>>

TxSuccess ==
    /\ Rendered /\ txStatus = "Mining"
    /\ txStatus' = "Success"
    /\ UNCHANGED <<deps, toastRef, toasts, lastCalls, genesVars, guardVars, resolveVars>>

TxFail ==
    /\ Rendered /\ txStatus = "Mining"
    /\ txStatus' = "Fail"
    /\ UNCHANGED <<deps, toastRef, toasts, lastCalls, genesVars, guardVars, resolveVars>>


(***************************************************************************)
(* Action hooks: the on<Action> callables                                  *)
(***************************************************************************)
\* JavaScript values an argument can hold, with their types.
Undefined    == [type |-> "undefined", val |-> 0, text |-> ""]
Null         == [type |-> "null", val |-> 0, text |-> ""]
Num(n)       == [type |-> "number", val |-> n, text |-> ""]
Str(t)       == [type |-> "string", val |-> 0, text |-> t]
BigNum(n)    == [type |-> "BigNumber", val |-> n, text |-> ""]
Bool(b)      == [type |-> "boolean", val |-> IF b THEN 1 ELSE 0, text |-> ""]

MaxId == 2

\* BigNumberish | undefined: numbers, decimal strings, BigNumber objects.
BigNumberishValues ==
    {Undefined} \cup {Num(n) : n \in 0..MaxId} \cup {BigNum(n) : n \in 0..MaxId}
                \cup {Str("0"), Str("1")}
\* string | undefined: a price typed into a form.
PriceStrings == {Undefined, Str(""), Str("0"), Str("1")}
\* boolean | null
ApprovedValues == {Null, Bool(FALSE), Bool(TRUE)}
\* CONTRACTS[chainId].marketplace
MarketplaceAddresses == {Undefined, Str(""), Str("0x5FbDB2315678afecb367f032d93F642f64180aa3")}

\* The truthiness the guards `!x` test.
Truthy(v) ==
    CASE v.type \in {"undefined", "null"} -> FALSE
      [] v.type \in {"number", "boolean"} -> v.val # 0
      [] v.type = "string"                -> v.text # ""
      [] OTHER                            -> TRUE

\* `x == undefined`: true of undefined and of null.
LooseUndefined(v) == v.type \in {"undefined", "null"}

NoSend == <<>>
Invocation(hook, a, b, sends, ret) ==
    [hook |-> hook, a |-> a, b |-> b, sends |-> sends, ret |-> ret]

\* onApprove
OnApprove(address, approved) ==
    IF ~Truthy(address) \/ LooseUndefined(approved)
    THEN Invocation("useSetApprovalForAll", address, approved, NoSend, "undefined")
    ELSE Invocation("useSetApprovalForAll", address, approved,
                    <<<<address, approved>>>>, "promise")

\* onCreateListing; parseEther(price) is kept as the price it parses.
OnCreateListing(price, tokenId) ==
    IF ~Truthy(price) \/ ~Truthy(tokenId)
    THEN Invocation("useCreateListing", price, tokenId, NoSend, "undefined")
    ELSE Invocation("useCreateListing", price, tokenId,
                    <<<<price, tokenId>>>>, "promise")

\* onRemoveListing
OnRemoveListing(tokenId) ==
    IF ~Truthy(tokenId)
    THEN Invocation("useRemoveListing", tokenId, Undefined, NoSend, "undefined")
    ELSE Invocation("useRemoveListing", tokenId, Undefined, <<<<tokenId>>>>, "promise")

\* onCreate; genes always holds a BigNumber.
OnCreate(gen0Price, g) ==
    IF ~Truthy(gen0Price)
    THEN Invocation("useCreateGen0Kitty", gen0Price, g, NoSend, "undefined")
    ELSE Invocation("useCreateGen0Kitty", gen0Price, g, <<<<g, gen0Price>>>>, "promise")

\* onBreed
OnBreed(momId, dadId) ==
    Invocation("useBreed", momId, dadId, <<<<momId, dadId>>>>, "promise")

\* onBuy
OnBuy(price, tokenId) ==
    IF ~Truthy(tokenId) \/ ~Truthy(price)
    THEN Invocation("useBuyKitty", price, tokenId, NoSend, "undefined")
    ELSE Invocation("useBuyKitty", price, tokenId, <<<<tokenId, price>>>>, "undefined")

Approve ==
    /\ \E address \in MarketplaceAddresses, approved \in ApprovedValues :
          lastAction' = OnApprove(address, approved)
    /\ UNCHANGED <<genesVars, notifyVars, resolveVars>>

CreateListing ==
    /\ \E price \in PriceStrings, tokenId \in BigNumberishValues :
          lastAction' = OnCreateListing(price, tokenId)
    /\ UNCHANGED <<genesVars, notifyVars, resolveVars>>

RemoveListing ==
    /\ \E tokenId \in BigNumberishValues : lastAction' = OnRemoveListing(tokenId)
    /\ UNCHANGED <<genesVars, notifyVars, resolveVars>>

CreateGen0Kitty ==
    /\ \E gen0Price \in {Undefined} \cup {BigNum(n) : n \in 0..MaxId},
          g \in {BigNum(n) : n \in 0..MaxId} :
          lastAction' = OnCreate(gen0Price, g)
    /\ UNCHANGED <<genesVars, notifyVars, resolveVars>>

Breed ==
    /\ \E momId \in BigNumberishValues \ {Undefined},
          dadId \in BigNumberishValues \ {Undefined} :
          lastAction' = OnBreed(momId, dadId)
    /\ UNCHANGED <<genesVars, notifyVars, resolveVars>>

BuyKitty ==
    /\ \E price \in BigNumberishValues, tokenId \in BigNumberishValues :
          lastAction' = OnBuy(price, tokenId)
    /\ UNCHANGED <<genesVars, notifyVars, resolveVars>>


(***************************************************************************)
(* Chain resolver, contract resolver and the read hooks                    *)
(***************************************************************************)
Mumbai == 80001
Polygon == 137

AddressZero == "0x0000000000000000000000000000000000000000"
KittyAddress == "0x5FbDB2315678afecb367f032d93F642f64180aa3"
OwnerAddress == "0x70997970C51812dc3A010C7d01b50e0d17dc79C8"

\* Addresses a configuration entry or a caller can hold.
AddressValues ==
    {Undefined, Str(""), Str(AddressZero), Str("0x5FbDB2"), Str("kitty.eth"),
     Str(KittyAddress)}

\* isAddress: the strings that are well-formed addresses.
IsAddress(address) ==
    address.type = "string" /\ address.text \in {AddressZero, KittyAddress, OwnerAddress}

\* useEthers(): chainId, library, account.
EthersValues ==
    [chainId : {Undefined, Num(1), Num(Polygon), Num(Mumbai), Num(31337)},
     library : BOOLEAN,
     account : {Undefined, Str(OwnerAddress)}]

\* Mutant: the default branch returns the connected chain.
UseChainIdPassThrough(chainId) == chainId

UseChainId(chainId) ==
    CASE chainId = Num(Mumbai)  -> chainId
      [] chainId = Num(Polygon) -> chainId
      [] OTHER                  -> Num(Mumbai)

NullContract == [kind |-> "null", address |-> "", signer |-> ""]
Thrown       == [kind |-> "throw", address |-> "", signer |-> ""]

\* getProviderOrSigner: the account's signer, or the library itself.
GetProviderOrSigner(account) ==
    IF Truthy(account) THEN account.text ELSE "provider"

\* Mutant: the address is not validated.
GetContractUnchecked(address, account) ==
    [kind |-> "contract", address |-> address.text,
     signer |-> GetProviderOrSigner(account)]

\* getContract: throws on an invalid or zero address.
GetContract(address, account) ==
    IF ~IsAddress(address) \/ address = Str(AddressZero)
    THEN Thrown
    ELSE [kind |-> "contract", address |-> address.text,
          signer |-> GetProviderOrSigner(account)]

\* useContract: null, or the handle; an exception of getContract is caught.
UseContract(address, abi, withSignerIfPossible, e) ==
    IF ~Truthy(address) \/ address = Str(AddressZero) \/ ~abi \/ ~e.library
    THEN NullContract
    ELSE LET c == GetContract(address,
                      IF withSignerIfPossible /\ Truthy(e.account)
                      THEN e.account ELSE Undefined)
         IN  IF c.kind = "throw" THEN NullContract ELSE c

\* What the node answers to a read call: nothing yet, a value, or an error.
CallOutcomes == {"pending", "value", "error"}
ReturnValue == BigNum(1)

\* A read hook: useCall(guard && contract && {contract, method, args}) ?? {},
\* then value?.[0].
ReadHook(hook, method, args, guard, address, withSigner, e, outcome) ==
    LET contract == UseContract(address, TRUE, withSigner, e)
        issued == guard /\ contract.kind = "contract"
    IN  [hook |-> hook, ethers |-> e, address |-> address,
         chainId |-> UseChainId(e.chainId),
         contract |-> contract,
         calls |-> IF issued THEN <<[contract |-> contract, method |-> method,
                                     args |-> args]>>
                   ELSE <<>>,
         value |-> IF issued /\ outcome = "value" THEN ReturnValue ELSE Undefined,
         logged |-> issued /\ outcome = "error",
         thrown |-> contract.kind = "throw"]

NotRendered ==
    [hook |-> "", ethers |-> [chainId |-> Undefined, library |-> FALSE,
                              account |-> Undefined],
     address |-> Undefined, chainId |-> Undefined, contract |-> NullContract,
     calls |-> <<>>, value |-> Undefined, logged |-> FALSE, thrown |-> FALSE]

\* The wallet connects, disconnects or switches chain.
EthersChange ==
    /\ \E e \in EthersValues : e # ethers /\ ethers' = e
    /\ UNCHANGED <<lastRead, genesVars, notifyVars, guardVars>>

\* address stands for CONTRACTS[chainId].kitty.
UseTotalSupply ==
    /\ \E address \in AddressValues, outcome \in CallOutcomes :
          lastRead' = ReadHook("useTotalSupply", "totalSupply", <<>>, TRUE,
                               address, FALSE, ethers, outcome)
    /\ UNCHANGED <<ethers, genesVars, notifyVars, guardVars>>

UseGen0Price ==
    /\ \E address \in AddressValues, outcome \in CallOutcomes :
          lastRead' = ReadHook("useGen0Price", "getGen0Price", <<>>, TRUE,
                               address, FALSE, ethers, outcome)
    /\ UNCHANGED <<ethers, genesVars, notifyVars, guardVars>>

UseIsApprovedForAll ==
    /\ \E address \in AddressValues, outcome \in CallOutcomes,
          owner \in {Undefined, Null, Str(OwnerAddress)} :
          lastRead' = ReadHook("useIsApprovedForAll", "isApprovedForAll",
                               <<owner.text>>, Truthy(owner),
                               address, TRUE, ethers, outcome)
    /\ UNCHANGED <<ethers, genesVars, notifyVars, guardVars>>

(***************************************************************************)
(* Specifications                                                          *)
(***************************************************************************)
IdleGenes   == dna = <<>> /\ genes = NoGenes
IdleNotify  == /\ txStatus = "None"
               /\ deps = [errorMessage |-> "", miningMessage |-> "",
                          status |-> "None", successMessage |-> ""]
               /\ toastRef = "" /\ toasts = {} /\ lastCalls = <<>>
IdleGuard   == lastAction = Invocation("", Undefined, Undefined, NoSend, "undefined")
IdleResolve == /\ ethers = [chainId |-> Undefined, library |-> FALSE,
                            account |-> Undefined]
               /\ lastRead = NotRendered

\* convertDnaToGenes on every DNA record of the bounds.
InitGenes == dna \in DNA /\ genes = NoGenes /\ IdleNotify /\ IdleGuard /\ IdleResolve
NextGenes == UseDnaToGenes
SpecGenes == InitGenes /\ [][NextGenes]_vars

\* convertDnaToGenes on the smaller records that injectivity is compared over.
InitPair == dna \in PairDNA /\ genes = NoGenes /\ IdleNotify /\ IdleGuard /\ IdleResolve
NextPair == UseDnaToGenes
SpecPair == InitPair /\ [][NextPair]_vars

\* One mounted useContractNotification instance: the first render saw status
\* None, and its effect did nothing.
InitNotify ==
    /\ txStatus = "None"
    /\ deps \in [errorMessage : ErrorMessages, miningMessage : MiningMessages,
                 status : {"None"}, successMessage : SuccessMessages]
    /\ toastRef = "" /\ toasts = {} /\ lastCalls = <<>>
    /\ IdleGenes /\ IdleGuard /\ IdleResolve
RenderStep ==
    \E e \in ErrorMessages, m \in MiningMessages, s \in SuccessMessages :
        Render(e, m, s)
NextNotify ==
    \/ RenderStep
    \/ Send
    \/ TxMined
    \/ TxException
    \/ TxSuccess
    \/ TxFail
SpecNotify == InitNotify /\ [][NextNotify]_vars

InitGuard == IdleGuard /\ IdleGenes /\ IdleNotify /\ IdleResolve
NextGuard ==
    \/ BuyKitty
    \/ Approve
    \/ CreateListing
    \/ RemoveListing
    \/ CreateGen0Kitty
    \/ Breed
SpecGuard == InitGuard /\ [][NextGuard]_vars

InitResolve ==
    /\ ethers \in EthersValues /\ lastRead = NotRendered
    /\ IdleGenes /\ IdleNotify /\ IdleGuard
NextResolve ==
    \/ EthersChange
    \/ UseTotalSupply
    \/ UseGen0Price
    \/ UseIsApprovedForAll
SpecResolve == InitResolve /\ [][NextResolve]_vars


(***************************************************************************)
(* Properties                                                              *)
(***************************************************************************)
Notifying == {"Mining", "Success", "Fail", "Exception"}
Terminal  == {"Success", "Fail", "Exception"}

\* C1: with all three messages configured, a render that observes a transition
\* into Mining, Success, Fail or Exception issues exactly one notification, a
\* render that observes a transition into None or PendingSignature issues none,
\* and a notification is issued under the identity the previous one returned
\* (the one the store holds), so the store never holds more than one toast.
C1_OneNotificationPerTransition ==
    [][\A e \in ErrorMessages \ {""}, m \in MiningMessages \ {""},
          s \in SuccessMessages \ {""} :
          (Render(e, m, s) /\ txStatus # deps.status) =>
              LET shown == ToastCalls(lastCalls')
              IN  /\ Len(shown) = IF txStatus \in Notifying THEN 1 ELSE 0
                  /\ Len(shown) = 1 =>
                       /\ \A t \in toasts : t.id = shown[1].opts.id
                       /\ toasts = {} => shown[1].opts.id = ""
                       /\ toasts # {} => toastRef' = shown[1].opts.id
                       /\ Cardinality(toasts') = 1
                       /\ \A t \in toasts' : t.id = toastRef']_vars

\* C1 witness: after [Mining, Success] the success notification was issued under
\* the identity of the loading one and is the only toast of the store.
C1_Witness ==
    /\ deps.status = "Success"
    /\ deps.miningMessage # ""
    /\ Len(ToastCalls(lastCalls)) = 1
    /\ ToastCalls(lastCalls)[1].type = "success"
    /\ ToastCalls(lastCalls)[1].opts.id = "1"
    /\ toasts = {[id |-> "1", type |-> "success", message |-> deps.successMessage,
                  persistent |-> FALSE]}

\* C2: the notification the latest effect issued is determined by the status it
\* observed: Fail or Exception gives an error toast of 6000 ms, Success a success
\* toast of 6000 ms, Mining a loading toast without duration; Fail, Exception and
\* Success with their message configured do give one.
C2_KindByStatus ==
    /\ \A i \in 1..Len(lastCalls) :
          lastCalls[i].op = "toast" =>
             LET c == lastCalls[i]
             IN  CASE deps.status \in {"Fail", "Exception"} ->
                         /\ c.type = "error"
                         /\ c.message = deps.errorMessage
                         /\ "duration" \in DOMAIN c.opts
                         /\ c.opts.duration = 6000
                   [] deps.status = "Success" ->
                         /\ c.type = "success"
                         /\ c.message = deps.successMessage
                         /\ "duration" \in DOMAIN c.opts
                         /\ c.opts.duration = 6000
                   [] deps.status = "Mining" ->
                         /\ c.type = "loading"
                         /\ c.message = deps.miningMessage
                         /\ "duration" \notin DOMAIN c.opts
                   [] OTHER -> FALSE
    /\ (deps.status \in {"Fail", "Exception"} /\ deps.errorMessage # "")
          => Len(ToastCalls(lastCalls)) = 1
    /\ (deps.status = "Success" /\ deps.successMessage # "")
          => Len(ToastCalls(lastCalls)) = 1

\* C2 witness: [Mining, Fail] with both messages configured: the second
\* notification, issued under the first one's identity, is an error.
C2_Witness ==
    /\ deps.status = "Fail"
    /\ Len(ToastCalls(lastCalls)) = 1
    /\ ToastCalls(lastCalls)[1].type = "error"
    /\ ToastCalls(lastCalls)[1].opts.id = "1"

\* C3: while the status stays Mining and its loading notification is shown, a
\* re-render issues no notification, whatever message texts it is given.
C3_OncePerTransition ==
    [][\A e \in ErrorMessages, m \in MiningMessages, s \in SuccessMessages :
          (/\ Render(e, m, s)
           /\ txStatus = "Mining" /\ deps.status = "Mining"
           /\ deps.miningMessage # "")
              => ToastCalls(lastCalls') = <<>>]_vars

\* C9: a render calls resetState exactly when it observes a transition into
\* Success, Fail or Exception, once, before any notification and also when the
\* message is not configured; the tracker's status is then None, and a render
\* that observes None issues nothing and resets nothing.
C9_ResetOnTerminal ==
    [][\A e \in ErrorMessages, m \in MiningMessages, s \in SuccessMessages :
          Render(e, m, s) =>
              /\ IF txStatus \in Terminal /\ txStatus # deps.status
                 THEN /\ Len(ResetCalls(lastCalls')) = 1
                      /\ lastCalls'[1] = ResetCall
                      /\ txStatus' = "None"
                 ELSE /\ Len(ResetCalls(lastCalls')) = 0
                      /\ txStatus' = txStatus
              /\ txStatus = "None" => lastCalls' = <<>>
              /\ deps'.status \in Terminal => txStatus' = "None"]_vars

\* C9 witness: an Exception observed with no error message configured: state
\* reset, no notification, status back to None.
C9_Witness ==
    /\ deps.status = "Exception"
    /\ deps.errorMessage = ""
    /\ lastCalls = <<ResetCall>>
    /\ txStatus = "None"

Present(v) == v.type \notin {"undefined", "null"}

\* C4: onBuy performs no send and returns nothing when price or tokenId is
\* undefined, and forwards to buy.send(tokenId, {value: price}) exactly once for
\* every defined price and tokenId.
C4_BuyGuard ==
    lastAction.hook = "useBuyKitty" =>
        IF lastAction.a = Undefined \/ lastAction.b = Undefined
        THEN lastAction.sends = NoSend /\ lastAction.ret = "undefined"
        ELSE lastAction.sends = <<<<lastAction.b, lastAction.a>>>>

\* C10: every on<Action> performs no send and returns nothing when a required
\* argument is absent, and otherwise sends exactly once and returns the send's
\* promise.
C10_UniformGuard ==
    lastAction.hook # "" =>
        LET required == IF lastAction.hook = "useRemoveListing"
                        THEN {lastAction.a} ELSE {lastAction.a, lastAction.b}
        IN  IF \E v \in required : ~Present(v)
            THEN lastAction.sends = NoSend /\ lastAction.ret = "undefined"
            ELSE Len(lastAction.sends) = 1 /\ lastAction.ret = "promise"

\* The number the concatenated decimal digits of the first i fields denote,
\* computed by positional arithmetic.
RECURSIVE Pow10(_)
Pow10(k) == IF k = 0 THEN 1 ELSE 10 * Pow10(k - 1)
RECURSIVE NumDigits(_)
NumDigits(n) == IF n < 10 THEN 1 ELSE 1 + NumDigits(n \div 10)
RECURSIVE DigitsValue(_, _)
DigitsValue(d, i) ==
    IF i = 0 THEN 0 ELSE DigitsValue(d, i - 1) * Pow10(NumDigits(d[i])) + d[i]

\* C6: the genes are the unsigned integer whose decimal digits are the fields'
\* decimal strings concatenated in declared order; fields 1, 23, 4 give 1234.
C6_Concatenation ==
    genes # NoGenes =>
        /\ genes >= 0
        /\ genes = DigitsValue(dna, Len(dna))
        /\ dna = <<1, 23, 4>> => genes = 1234

\* C6 witness: the record 1, 23, 4 was encoded.
C6_Witness == dna = <<1, 23, 4>> /\ genes = 1234

FieldStringsDiffer(d1, d2) ==
    \E i \in DOMAIN d1 : ToDecimalString(d1[i]) # ToDecimalString(d2[i])
SameWidths(d1, d2) ==
    \A i \in DOMAIN d1 : Len(ToDecimalString(d1[i])) = Len(ToDecimalString(d2[i]))

\* C5 as stated: a record that differs from the encoded one in some field's
\* decimal string has different genes.
C5_Injective ==
    genes # NoGenes =>
        \A d \in PairDNA :
            FieldStringsDiffer(d, dna) => convertDnaToGenes(d) # genes

\* C5 as amended: a record whose fields have the same numbers of digits as the
\* encoded one's and that differs from it in some field's decimal string has
\* different genes.
C5_FixedWidthInjective ==
    genes # NoGenes =>
        \A d \in PairDNA :
            (SameWidths(d, dna) /\ FieldStringsDiffer(d, dna))
                => convertDnaToGenes(d) # genes

\* C5 witness: 1, 12 was encoded; 2, 12 has the same widths and other genes,
\* while 11, 2 has other widths and the same genes.
C5_Witness ==
    /\ dna = <<1, 12>> /\ genes = 112
    /\ SameWidths(<<2, 12>>, dna) /\ convertDnaToGenes(<<2, 12>>) # genes
    /\ convertDnaToGenes(<<11, 2>>) = genes

InvalidAddress(address) ==
    \/ ~Truthy(address)
    \/ address = Str(AddressZero)
    \/ ~IsAddress(address)

\* C7: with the address missing, zero or malformed, or without a library, the
\* resolver gives null and does not throw; and without a handle a read hook
\* issues no call and exposes no value.
C7_NoHandleNoCall ==
    lastRead.hook # "" =>
        /\ (InvalidAddress(lastRead.address) \/ ~lastRead.ethers.library) =>
              lastRead.contract = NullContract
        /\ ~lastRead.thrown
        /\ lastRead.contract.kind # "contract" =>
              lastRead.calls = <<>> /\ lastRead.value = Undefined

\* C7 witness: a malformed address with a library present: getContract threw,
\* the hook got null and issued no call.
C7_Witness ==
    /\ lastRead.hook = "useTotalSupply"
    /\ lastRead.address = Str("0x5FbDB2")
    /\ lastRead.ethers.library
    /\ lastRead.contract = NullContract
    /\ lastRead.calls = <<>>

\* C8: the resolved chain is the connected one when that is Polygon or Mumbai,
\* and Mumbai for every other input, undefined included.
C8_ChainFallback ==
    lastRead.hook # "" =>
        /\ lastRead.chainId.type = "number"
        /\ lastRead.chainId =
              IF lastRead.ethers.chainId \in {Num(Polygon), Num(Mumbai)}
              THEN lastRead.ethers.chainId ELSE Num(Mumbai)

\* C8 witness: not connected, resolved to Mumbai.
C8_Witness ==
    /\ lastRead.hook # ""
    /\ lastRead.ethers.chainId = Undefined
    /\ lastRead.chainId = Num(Mumbai)


====
